---------------------------- MODULE Spec2Model ----------------------------
(***************************************************************************)
(* A model of the PMVHaven2 scene scraper (src/scrapers/PMVHaven2.py).     *)
(*                                                                         *)
(* Strings are sequences of one-character strings, so that the regular     *)
(* expressions and string methods of the scraper are computed character by *)
(* character.  The empty sequence is the empty string; Python's None for   *)
(* an optional string is modelled by the empty sequence wherever the code  *)
(* only tests truthiness.                                                  *)
(***************************************************************************)
EXTENDS Integers, Sequences, FiniteSets, TLC

(***************************************************************************)
(* Character classes of the regular expressions.                           *)
(***************************************************************************)
Digits == {"0", "1", "2", "3", "4", "5", "6", "7", "8", "9"}

HexLower == Digits \cup {"a", "b", "c", "d", "e", "f"}

Lowers == {"a", "b", "c", "d", "e", "f", "g", "h", "i", "j", "k", "l", "m",
           "n", "o", "p", "q", "r", "s", "t", "u", "v", "w", "x", "y", "z"}

Uppers == {"A", "B", "C", "D", "E", "F", "G", "H", "I", "J", "K", "L", "M",
           "N", "O", "P", "Q", "R", "S", "T", "U", "V", "W", "X", "Y", "Z"}

Alnum == Digits \cup Lowers \cup Uppers

WordChars == Alnum \cup {"_"}

Spaces == {" ", "\t"}

KeyChars == Alnum \cup {"_", "-"}

(***************************************************************************)
(* Program constants.                                                      *)
(***************************************************************************)
SceneIdLen == 24

MinStampDigits == 8

DURATION_TOLERANCE_SECONDS == 10

\* A variant with one more attempt.
MaxAttempts_OneMore == 3 + 1

MaxAttempts == 3

PrefilterThreshold == 10

\* A variant with a cap of six.
DetailCap_OneMore == 5 + 1

DetailCap == 5

ShortlistSize == 3

(***************************************************************************)
(* Generic helpers on finite sets of integers and on strings.              *)
(***************************************************************************)
MinOf(S) == CHOOSE i \in S : \A j \in S : i <= j

MaxOf(S) == CHOOSE i \in S : \A j \in S : j <= i

Tail0(s, i) == SubSeq(s, i, Len(s))

OccursAt(s, pat, i) ==
    /\ i + Len(pat) - 1 <= Len(s)
    /\ \A k \in 1..Len(pat) : s[i + k - 1] = pat[k]

Contains(s, pat) == \E i \in 1..(Len(s) + 1) : OccursAt(s, pat, i)

AllIn(s, lo, hi, class) == \A k \in lo..hi : s[k] \in class

\* The end of the maximal run of characters of `class` that starts at i.
RunEnd(s, i, class) ==
    LET stops == {j \in i..Len(s) : s[j] \notin class}
    IN  IF stops = {} THEN Len(s) ELSE MinOf(stops) - 1

\* os.path.basename (POSIX): what follows the last "/".
basename(s) ==
    LET idx == {i \in 1..Len(s) : s[i] = "/"}
    IN  IF idx = {} THEN s ELSE Tail0(s, MaxOf(idx) + 1)

\* value.split("?")[0]
BeforeQuestionMark(s) ==
    LET idx == {i \in 1..Len(s) : s[i] = "?"}
    IN  IF idx = {} THEN s ELSE SubSeq(s, 1, MinOf(idx) - 1)

\* re.sub(r"\.[^.]+$", "", name): the last "." and what follows, when
\* something follows it.
RemoveExtension(s) ==
    LET dots == {i \in 1..Len(s) : s[i] = "."}
    IN  IF dots = {} \/ MaxOf(dots) = Len(s)
        THEN s
        ELSE SubSeq(s, 1, MaxOf(dots) - 1)

\* name.split("_-_", 1)[1] when "_-_" occurs in name.
AfterFirstSeparator(s) ==
    LET sep == <<"_", "-", "_">>
        idx == {i \in 1..Len(s) : OccursAt(s, sep, i)}
    IN  IF idx = {} THEN s ELSE Tail0(s, MinOf(idx) + 3)

\* A variant that replaces "_" only.
SeparatorsToSpaces_UnderscoreOnly(s) ==
    [i \in 1..Len(s) |-> IF s[i] = "_" THEN " " ELSE s[i]]

\* name.replace("_", " ").replace("-", " ")
SeparatorsToSpaces(s) ==
    [i \in 1..Len(s) |-> IF s[i] \in {"_", "-"} THEN " " ELSE s[i]]

\* re.search(r"\s(\d{8,})\s", name): the starts of its matches.
SpacedStampStarts(s) ==
    {i \in 1..Len(s) :
        /\ s[i] \in Spaces
        /\ i + 1 <= Len(s)
        /\ s[i + 1] \in Digits
        /\ LET e == RunEnd(s, i + 1, Digits)
           IN  /\ e - i >= MinStampDigits
               /\ e + 1 <= Len(s)
               /\ s[e + 1] \in Spaces}

\* re.search(r"\b(\d{8,})", name): the starts of its matches.
BoundaryStampStarts(s) ==
    {i \in 1..Len(s) :
        /\ i = 1 \/ s[i - 1] \notin WordChars
        /\ i + MinStampDigits - 1 <= Len(s)
        /\ AllIn(s, i, i + MinStampDigits - 1, Digits)}

\* name[:match.start()] for the match the code prefers, name when none.
CutAtStamp(s) ==
    IF SpacedStampStarts(s) # {}
    THEN SubSeq(s, 1, MinOf(SpacedStampStarts(s)) - 1)
    ELSE IF BoundaryStampStarts(s) # {}
         THEN SubSeq(s, 1, MinOf(BoundaryStampStarts(s)) - 1)
         ELSE s

RECURSIVE CollapseFrom(_, _, _)
CollapseFrom(s, i, acc) ==
    IF i > Len(s) THEN acc
    ELSE IF s[i] \in Spaces
         THEN CollapseFrom(s, i + 1,
                 IF acc = <<>> \/ acc[Len(acc)] = " " THEN acc
                 ELSE Append(acc, " "))
         ELSE CollapseFrom(s, i + 1, Append(acc, s[i]))

\* re.sub(r"\s+", " ", name).strip()
CollapseWhitespace(s) ==
    LET c == CollapseFrom(s, 1, <<>>)
    IN  IF c # <<>> /\ c[Len(c)] = " " THEN SubSeq(c, 1, Len(c) - 1) ELSE c

_build_search_query(value) ==
    IF value = <<>> THEN <<>>
    ELSE CollapseWhitespace(
            CutAtStamp(
              SeparatorsToSpaces(
                AfterFirstSeparator(
                  RemoveExtension(basename(value))))))

\* re.search(r"(\d+)_([A-Za-z0-9]+)", name): the starts of its matches.
CombinedStarts(s) ==
    {i \in 1..Len(s) :
        /\ s[i] \in Digits
        /\ LET e == RunEnd(s, i, Digits)
           IN  /\ e + 2 <= Len(s)
               /\ s[e + 1] = "_"
               /\ s[e + 2] \in Alnum}

\* The stem the token extractor works on.
TokenStem(filename) == RemoveExtension(basename(BeforeQuestionMark(filename)))

_extract_filename_tokens(filename) ==
    IF filename = <<>> THEN <<>>
    ELSE LET name == TokenStem(filename)
             digitIdx == {i \in 1..Len(name) : name[i] \in Digits}
         IN  IF CombinedStarts(name) # {}
             THEN LET i == MinOf(CombinedStarts(name))
                      e == RunEnd(name, i, Digits)
                      f == RunEnd(name, e + 2, Alnum)
                  IN  << SubSeq(name, i, f), SubSeq(name, i, e),
                         SubSeq(name, e + 2, f) >>
             ELSE IF digitIdx # {}
                  THEN LET i == MinOf(digitIdx)
                       IN  << SubSeq(name, i, RunEnd(name, i, Digits)) >>
                  ELSE IF name # <<>> /\ AllIn(name, 1, Len(name), Alnum)
                       THEN << name >>
                       ELSE <<>>

\* A variant whose character class is [A-F0-9].
_extract_scene_id_UpperHex(text) ==
    LET upper == Digits \cup {"A", "B", "C", "D", "E", "F"}
        idx == {i \in 1..Len(text) :
                   /\ i + SceneIdLen - 1 <= Len(text)
                   /\ AllIn(text, i, i + SceneIdLen - 1, upper)}
    IN  IF idx = {} THEN <<>>
        ELSE SubSeq(text, MinOf(idx), MinOf(idx) + SceneIdLen - 1)

\* re.search(r"([a-f0-9]{24})", text or ""); the empty string stands for None.
_extract_scene_id(text) ==
    LET idx == {i \in 1..Len(text) :
                   /\ i + SceneIdLen - 1 <= Len(text)
                   /\ AllIn(text, i, i + SceneIdLen - 1, HexLower)}
    IN  IF idx = {} THEN <<>>
        ELSE SubSeq(text, MinOf(idx), MinOf(idx) + SceneIdLen - 1)

\* The empty string stands for None: the callers only test truthiness.
_extract_storage_key(value) ==
    IF value = <<>> THEN <<>>
    ELSE LET name == basename(BeforeQuestionMark(value))
             dots == {i \in 1..Len(name) : name[i] = "."}
         IN  IF dots = {} THEN <<>>
             ELSE LET d == MaxOf(dots)
                  IN  IF /\ d < Len(name)
                         /\ AllIn(name, d + 1, Len(name), Alnum)
                         /\ d > 1
                         /\ name[d - 1] \in KeyChars
                      THEN LET bad == {j \in 1..(d - 1) : name[j] \notin KeyChars}
                           IN  IF bad = {} THEN name
                               ELSE Tail0(name, MaxOf(bad) + 1)
                      ELSE name

(***************************************************************************)
(* JSON values of the duration fields: a number, a numeric string, a       *)
(* string that is not numeric, or null / absent.                           *)
(***************************************************************************)
JNull == [t |-> "null", v |-> 0]

JNum(n) == [t |-> "num", v |-> n]

JNumStr(n) == [t |-> "numstr", v |-> n]

JBadStr == [t |-> "badstr", v |-> 0]

\* Optional[float]: None is [ok |-> FALSE].
None == [ok |-> FALSE, v |-> 0]

Some(n) == [ok |-> TRUE, v |-> n]

_coerce_duration(value) ==
    IF value.t \in {"num", "numstr"} THEN Some(value.v) ELSE None

\* The keys ("duration", "durationSeconds", "length", "runtime", "runTime",
\* "time") are the positions 1..6 of video.durs; the first coercible wins.
_extract_candidate_duration(video) ==
    LET okKeys == {k \in 1..Len(video.durs) : _coerce_duration(video.durs[k]).ok}
    IN  IF okKeys = {} THEN None
        ELSE _coerce_duration(video.durs[MinOf(okKeys)])

Abs(n) == IF n < 0 THEN -n ELSE n

_duration_matches(candidate_duration, local_durations) ==
    /\ candidate_duration.ok
    /\ local_durations # <<>>
    /\ \E k \in 1..Len(local_durations) :
          Abs(candidate_duration.v - local_durations[k])
             <= DURATION_TOLERANCE_SECONDS

\* _collect appends the coerced value when there is one.
Collect(durations, value) ==
    IF _coerce_duration(value).ok
    THEN Append(durations, _coerce_duration(value).v)
    ELSE durations

RECURSIVE CollectFingerprints(_, _, _)
CollectFingerprints(durations, fps, i) ==
    IF i > Len(fps) THEN durations
    ELSE CollectFingerprints(
            IF fps[i].isDict THEN Collect(durations, fps[i].duration)
            ELSE durations,
            fps, i + 1)

\* params: [isDict, duration, scene: [isDict, duration, fingerprints],
\*          fingerprints], a fingerprints value being [isList, items].
_extract_local_durations(params) ==
    IF ~params.isDict THEN <<>>
    ELSE LET d1 == Collect(<<>>, params.duration)
             d2 == IF params.scene.isDict
                   THEN Collect(d1, params.scene.duration)
                   ELSE d1
             fingerprints == IF params.scene.isDict
                             THEN params.scene.fingerprints
                             ELSE params.fingerprints
         IN  IF fingerprints.isList
             THEN CollectFingerprints(d2, fingerprints.items, 1)
             ELSE d2

(***************************************************************************)
(* Text helpers of the scene builder and the scorer.                       *)
(***************************************************************************)
UpperSeq == <<"A", "B", "C", "D", "E", "F", "G", "H", "I", "J", "K", "L", "M",
              "N", "O", "P", "Q", "R", "S", "T", "U", "V", "W", "X", "Y", "Z">>

LowerSeq == <<"a", "b", "c", "d", "e", "f", "g", "h", "i", "j", "k", "l", "m",
              "n", "o", "p", "q", "r", "s", "t", "u", "v", "w", "x", "y", "z">>

LowerChar(c) ==
    IF c \in Uppers
    THEN LowerSeq[CHOOSE i \in 1..Len(UpperSeq) : UpperSeq[i] = c]
    ELSE c

\* str.lower()
Lower(s) == [i \in 1..Len(s) |-> LowerChar(s[i])]

RECURSIVE SlugFrom(_, _, _)
SlugFrom(s, i, acc) ==
    IF i > Len(s) THEN acc
    ELSE IF s[i] \notin Alnum
         THEN SlugFrom(s, i + 1,
                 IF acc = <<>> \/ acc[Len(acc)] = "-" THEN acc
                 ELSE Append(acc, "-"))
         ELSE SlugFrom(s, i + 1, Append(acc, s[i]))

\* re.sub(r"[^a-zA-Z0-9]+", "-", value or "").strip("-").lower()
_slugify(value) ==
    LET c == SlugFrom(value, 1, <<>>)
    IN  Lower(IF c # <<>> /\ c[Len(c)] = "-"
              THEN SubSeq(c, 1, Len(c) - 1) ELSE c)

RECURSIVE JoinWith(_, _)
\* sep.join(words)
JoinWith(words, sep) ==
    IF words = <<>> THEN <<>>
    ELSE IF Len(words) = 1 THEN words[1]
         ELSE words[1] \o sep \o JoinWith(Tail(words), sep)

\* The length of the common run of a from i and b from j, inside the
\* windows that end at ahi and bhi.
CommonRun(a, i, ahi, b, j, bhi) ==
    LET room == IF ahi - i < bhi - j THEN ahi - i + 1 ELSE bhi - j + 1
        diff == {k \in 1..room : a[i + k - 1] # b[j + k - 1]}
    IN  IF diff = {} THEN room ELSE MinOf(diff) - 1

\* SequenceMatcher.find_longest_match (no junk, strings under 200
\* characters): the longest block, the earliest in a, then the earliest in b.
FindLongestMatch(a, alo, ahi, b, blo, bhi) ==
    LET pairs == (alo..ahi) \X (blo..bhi)
        size(p) == CommonRun(a, p[1], ahi, b, p[2], bhi)
        best == IF pairs = {} THEN 0
                ELSE MaxOf({size(p) : p \in pairs})
    IN  IF best = 0 THEN <<alo, blo, 0>>
        ELSE LET i == MinOf({p[1] : p \in {q \in pairs : size(q) = best}})
                 j == MinOf({p[2] : p \in {q \in pairs :
                                              q[1] = i /\ size(q) = best}})
             IN  <<i, j, best>>

RECURSIVE MatchedChars(_, _, _, _, _, _)
\* The sum of the sizes of SequenceMatcher.get_matching_blocks.
MatchedChars(a, alo, ahi, b, blo, bhi) ==
    IF alo > ahi \/ blo > bhi THEN 0
    ELSE LET m == FindLongestMatch(a, alo, ahi, b, blo, bhi)
         IN  IF m[3] = 0 THEN 0
             ELSE m[3]
                  + MatchedChars(a, alo, m[1] - 1, b, blo, m[2] - 1)
                  + MatchedChars(a, m[1] + m[3], ahi, b, m[2] + m[3], bhi)

(***************************************************************************)
(* Remote records.  A search candidate and a detail record have the same   *)
(* shape: isDict (FALSE: the JSON value is a number, not an object), the   *)
(* keys _id, id, videoId, title, thumbnailUrl (the empty string when the   *)
(* key is absent), tags (a list of strings nested in the object), durs     *)
(* (the six duration-like keys, in the order the code reads them) and      *)
(* error (the object has an "error" key).                                  *)
(***************************************************************************)
NoDurs == <<JNull, JNull, JNull, JNull, JNull, JNull>>

Record(oid, title, durs) ==
    [isDict |-> TRUE, _id |-> oid, id |-> <<>>, videoId |-> <<>>,
     title |-> title, thumbnailUrl |-> <<>>, tags |-> <<>>, durs |-> durs,
     error |-> FALSE]

NotADict ==
    [isDict |-> FALSE, _id |-> <<>>, id |-> <<>>, videoId |-> <<>>,
     title |-> <<>>, thumbnailUrl |-> <<>>, tags |-> <<>>, durs |-> NoDurs,
     error |-> FALSE]

\* The same object with a "tags" list.
WithTags(item, tags) == [item EXCEPT !.tags = tags]

_get_video_id(item) ==
    IF item._id # <<>> THEN item._id
    ELSE IF item.id # <<>> THEN item.id ELSE item.videoId

\* A variant that looks at the title only.
_video_contains_token_TitleOnly(video, tokens) ==
    /\ tokens # <<>>
    /\ \E k \in 1..Len(tokens) : Contains(video.title, tokens[k])

\* _iter_strings over the record: its string values and, one level down,
\* the strings of its "tags" list.
_iter_strings(obj) ==
    IF obj.isDict
    THEN {obj._id, obj.id, obj.videoId, obj.title, obj.thumbnailUrl}
            \cup {obj.tags[k] : k \in 1..Len(obj.tags)}
    ELSE {}

_video_contains_token(video, tokens) ==
    /\ tokens # <<>>
    /\ \E value \in _iter_strings(video) :
          \E k \in 1..Len(tokens) : Contains(value, tokens[k])

_pick_image(video) == video.thumbnailUrl

VideoBase == <<"h", "t", "t", "p", "s", ":", "/", "/", "p", "m", "v", "h", "a", "v", "e", "n", ".", "c", "o", "m", "/", "v", "i", "d", "e", "o", "/">>

SceneUrl(title, video_id) ==
    IF _slugify(title) # <<>> /\ video_id # <<>>
    THEN VideoBase \o _slugify(title) \o <<"_">> \o video_id
    ELSE VideoBase \o video_id

OptionUrl(title, video_id) ==
    IF _slugify(title) # <<>> /\ video_id # <<>>
    THEN VideoBase \o _slugify(title) \o <<"_">> \o video_id
    ELSE <<>>

\* The ResolvedScene of a record that has none of the optional keys
\* (description, creator, tags, starsTags, uploadDate).
_build_scene(video) ==
    [title |-> video.title,
     url |-> SceneUrl(video.title, video._id),
     image |-> _pick_image(video),
     date |-> <<>>,
     performers |-> <<>>,
     tags |-> <<>>]

SelectionOption(item) ==
    [title |-> item.title,
     id |-> _get_video_id(item),
     url |-> OptionUrl(item.title, _get_video_id(item)),
     thumbnail |-> _pick_image(item)]

RECURSIVE OptionsFrom(_, _)
OptionsFrom(candidates, i) ==
    IF i > Len(candidates) THEN <<>>
    ELSE IF candidates[i].isDict
         THEN <<SelectionOption(candidates[i])>> \o OptionsFrom(candidates, i + 1)
         ELSE OptionsFrom(candidates, i + 1)

_build_selection_options(candidates) ==
    [results |-> OptionsFrom(candidates, 1)]

(***************************************************************************)
(* Scores are exact rationals num/den: 100 * ratio + 50 * bonus, with      *)
(* ratio = 2 * M / T of SequenceMatcher.                                   *)
(***************************************************************************)
_calculate_score(video, query_title, local_durations) ==
    LET a == Lower(query_title)
        b == Lower(video.title)
        total == Len(a) + Len(b)
        bonus == IF /\ local_durations # <<>>
                    /\ _duration_matches(_extract_candidate_duration(video),
                                         local_durations)
                 THEN 50 ELSE 0
    IN  IF query_title # <<>> /\ video.title # <<>>
        THEN [num |-> 200 * MatchedChars(a, 1, Len(a), b, 1, Len(b))
                        + bonus * total,
              den |-> total]
        ELSE [num |-> bonus, den |-> 1]

ScoreLess(s1, s2) == s1.num * s2.den < s2.num * s1.den

\* One step of the stable descending sort: x goes before the first entry
\* with a strictly lower score.
InsertByScore(sorted, x) ==
    LET lower == {k \in 1..Len(sorted) : ScoreLess(sorted[k].score, x.score)}
    IN  IF lower = {} THEN Append(sorted, x)
        ELSE SubSeq(sorted, 1, MinOf(lower) - 1) \o <<x>>
             \o Tail0(sorted, MinOf(lower))

RECURSIVE SortFrom(_, _, _)
SortFrom(items, i, acc) ==
    IF i > Len(items) THEN acc
    ELSE SortFrom(items, i + 1, InsertByScore(acc, items[i]))

\* scored_candidates.sort(key=lambda x: x[0], reverse=True)
SortByScoreDesc(items) == SortFrom(items, 1, <<>>)

\* The (score, video) pairs of the fetched records, before the sort.
ScoreAll(videos, query_title, local_durations) ==
    [k \in 1..Len(videos) |->
        [score |-> _calculate_score(videos[k], query_title, local_durations),
         video |-> videos[k]]]

Videos(scored) == [k \in 1..Len(scored) |-> scored[k].video]

FirstN(s, n) == SubSeq(s, 1, IF Len(s) < n THEN Len(s) ELSE n)

\* A variant that always commits to the top-scored record.
Decide_TopOnly(scored, local_durations) == _build_scene(scored[1].video)

\* A variant whose shortlist is not cut to three entries.
Decide_NoCap(scored, local_durations) ==
    LET passing == {k \in 1..Len(scored) :
                       _duration_matches(
                          _extract_candidate_duration(scored[k].video),
                          local_durations)}
    IN  IF local_durations # <<>> /\ 1 \notin passing
        THEN IF passing # {}
             THEN _build_scene(scored[MinOf(passing)].video)
             ELSE _build_selection_options(Videos(SortByScoreDesc(scored)))
        ELSE _build_scene(scored[1].video)

\* Lines 537-552: the decision on the ranked list.
Decide(scored, local_durations) ==
    LET best_video == scored[1].video
        passing == {k \in 1..Len(scored) :
                       _duration_matches(
                          _extract_candidate_duration(scored[k].video),
                          local_durations)}
    IN  IF /\ local_durations # <<>>
           /\ ~_duration_matches(_extract_candidate_duration(best_video),
                                 local_durations)
        THEN IF passing # {}
             THEN _build_scene(scored[MinOf(passing)].video)
             ELSE _build_selection_options(
                     Videos(FirstN(SortByScoreDesc(scored), ShortlistSize)))
        ELSE _build_scene(best_video)

(***************************************************************************)
(* The inputs of a run: the method argument, what stdin holds and the      *)
(* fragment.                                                               *)
(***************************************************************************)
HexId == <<"0", "1", "2", "3", "4", "5", "6", "7", "8", "9", "a", "b", "c", "d", "e", "f", "0", "1", "2", "3", "4", "5", "6", "7">>

HexId2 == <<"f", "e", "d", "c", "b", "a", "9", "8", "7", "6", "5", "4", "3", "2", "1", "0", "f", "e", "d", "c", "b", "a", "9", "8">>

FnPlain == <<"a", "b", ".", "m", "p", "4">>

FnOther == <<"q", "q", ".", "m", "p", "4">>

FnStamp == <<"x", "_", "-", "_", "a", "b", "_", "1", "2", "3", "4", "5", "6", "7", "8", "_", "c", "d", ".", "m", "p", "4">>

FnDigits == <<"1", "2", "3", "4", "5", "6", "7", "8", ".", "m", "p", "4">>

FnHex == <<"v", "_", "0", "1", "2", "3", "4", "5", "6", "7", "8", "9", "a", "b", "c", "d", "e", "f", "0", "1", "2", "3", "4", "5", "6", "7", ".", "m", "p", "4">>

TitlePlain == <<"a", "b", " ", "c", "d">>

TitleHex == <<"x", " ", "f", "e", "d", "c", "b", "a", "9", "8", "7", "6", "5", "4", "3", "2", "1", "0", "f", "e", "d", "c", "b", "a", "9", "8">>

UrlHex == <<"h", "t", "t", "p", "s", ":", "/", "/", "p", "m", "v", "h", "a", "v", "e", "n", ".", "c", "o", "m", "/", "v", "i", "d", "e", "o", "/", "a", "b", "-", "c", "d", "_", "0", "1", "2", "3", "4", "5", "6", "7", "8", "9", "a", "b", "c", "d", "e", "f", "0", "1", "2", "3", "4", "5", "6", "7">>

UrlSlug == <<"h", "t", "t", "p", "s", ":", "/", "/", "p", "m", "v", "h", "a", "v", "e", "n", ".", "c", "o", "m", "/", "v", "i", "d", "e", "o", "/", "a", "b", "-", "c", "d", "/">>

UrlStamp == <<"h", "t", "t", "p", "s", ":", "/", "/", "p", "m", "v", "h", "a", "v", "e", "n", ".", "c", "o", "m", "/", "v", "i", "d", "e", "o", "/", "1", "2", "3", "4", "5", "6", "7", "8", "?", "x", "=", "1">>

NoList == [isList |-> FALSE, items |-> <<>>]

JList(items) == [isList |-> TRUE, items |-> items]

NoScene == [isDict |-> FALSE, duration |-> JNull, fingerprints |-> NoList]

Fingerprint(d) == [isDict |-> TRUE, duration |-> d]

\* The duration-bearing part of a fragment: top-level duration, scene,
\* top-level fingerprints.
DurationConfigs ==
    [none |-> [duration |-> JNull, scene |-> NoScene, fingerprints |-> NoList],
     top |-> [duration |-> JNum(120), scene |-> NoScene,
              fingerprints |-> NoList],
     nested |-> [duration |-> JBadStr,
                 scene |-> [isDict |-> TRUE, duration |-> JNumStr(120),
                            fingerprints |-> JList(<<Fingerprint(JNum(500))>>)],
                 fingerprints |-> JList(<<Fingerprint(JNum(125))>>)]]

Fragment(filename, title, url, d) ==
    [isDict |-> TRUE, filename |-> filename, title |-> title, url |-> url,
     duration |-> DurationConfigs[d].duration,
     scene |-> DurationConfigs[d].scene,
     fingerprints |-> DurationConfigs[d].fingerprints]

\* stdin holds JSON that is not an object.
NotAnObject ==
    [isDict |-> FALSE, filename |-> <<>>, title |-> <<>>, url |-> <<>>,
     duration |-> JNull, scene |-> NoScene, fingerprints |-> NoList]

Fragments ==
    { Fragment(FnPlain, <<>>, <<>>, "top"),
      Fragment(FnPlain, <<>>, <<>>, "none"),
      Fragment(FnOther, <<>>, <<>>, "top"),
      Fragment(FnStamp, TitlePlain, <<>>, "nested"),
      Fragment(<<>>, TitlePlain, <<>>, "top"),
      Fragment(FnDigits, TitlePlain, <<>>, "top"),
      Fragment(<<>>, <<>>, <<>>, "none"),
      Fragment(FnHex, <<>>, <<>>, "top"),
      Fragment(FnPlain, TitleHex, <<>>, "none"),
      Fragment(FnHex, TitleHex, <<>>, "none"),
      Fragment(<<>>, <<>>, UrlHex, "none"),
      Fragment(<<>>, <<>>, UrlSlug, "top"),
      Fragment(<<>>, <<>>, UrlStamp, "none"),
      NotAnObject }

Methods == {"none", "sceneByURL", "sceneByFragment", "sceneByName"}

StdinKinds == {"empty", "invalid", "json"}

(***************************************************************************)
(* The remote catalog: what a Search call and a watch-page call can        *)
(* answer.                                                                 *)
(***************************************************************************)
CandidateIds ==
    << <<"v", "1">>, <<"v", "2">>, <<"v", "3">>, <<"v", "4">>, <<"v", "5">>,
       <<"v", "6">>, <<"v", "7">>, <<"v", "8">>, <<"v", "9">>,
       <<"v", "1", "0">>, <<"v", "1", "1">> >>

TitleAb == <<"A", "b">>

TitleZb == <<"z", "b">>

TitleZz == <<"z", "z">>

TitleLowerAb == <<"a", "b">>

TitleA == <<"a">>

TitleCd == <<"x", " ", "c", "d">>

\* Three candidates: one without any id, one that is not an object.
SmallList ==
    << Record(CandidateIds[1], TitleAb, NoDurs),
       Record(<<>>, TitleZb, NoDurs),
       Record(CandidateIds[3], TitleA, NoDurs) >>

OddList == << Record(CandidateIds[2], TitleZb, NoDurs), NotADict >>

\* More candidates than the pre-filter threshold: the six odd ones carry
\* "ab" in their title, the second carries it in its tags, the fourth
\* carries "Ab", the tenth carries "cd".
BigList ==
    [k \in 1..Len(CandidateIds) |->
        WithTags(Record(CandidateIds[k],
                        IF k = 10 THEN TitleCd
                        ELSE IF k = 4 THEN TitleAb
                        ELSE IF k % 2 = 1 THEN TitleLowerAb ELSE TitleZb,
                        NoDurs),
                 IF k = 2 THEN <<TitleZb, TitleLowerAb>> ELSE <<>>)]

NoData == [kind |-> "absent", items |-> <<>>, videos |-> NoList,
           results |-> NoList]

SearchBody(videos, results, data) ==
    [videos |-> videos, results |-> results, data |-> data]

SearchBodies ==
    { SearchBody(NoList, NoList, NoData),
      SearchBody(JList(<<>>), JList(SmallList), NoData),
      SearchBody(JList(SmallList), NoList, NoData),
      SearchBody(NoList, JList(OddList), NoData),
      SearchBody(NoList, NoList,
                 [kind |-> "list", items |-> SmallList, videos |-> NoList,
                  results |-> NoList]),
      SearchBody(NoList, NoList,
                 [kind |-> "dict", items |-> <<>>, videos |-> NoList,
                  results |-> JList(BigList)]) }

SearchResponses ==
    { [kind |-> k, body |-> SearchBody(NoList, NoList, NoData)] :
         k \in {"transport", "errorbody", "nondict"} }
    \cup { [kind |-> "body", body |-> b] : b \in SearchBodies }

_extract_video_candidates(data) ==
    IF data.videos.isList THEN data.videos.items
    ELSE IF data.results.isList THEN data.results.items
    ELSE IF data.data.kind = "list" THEN data.data.items
    ELSE IF data.data.kind = "dict"
         THEN IF data.data.videos.isList THEN data.data.videos.items
              ELSE IF data.data.results.isList THEN data.data.results.items
              ELSE <<>>
         ELSE <<>>

EmptyDict == Record(<<>>, <<>>, NoDurs)

\* The detail records the catalog may hold for an id: a title equal to the
\* token "ab" with a duration far from the local ones, an unrelated title
\* with a duration within tolerance (a numeric string under "length"), a
\* record without any duration, an object with an "error" key, and {}.
DetailVideos(video_id) ==
    { Record(video_id, TitleAb,
             <<JNum(300), JNull, JNull, JNull, JNull, JNull>>),
      Record(video_id, TitleZz,
             <<JBadStr, JNull, JNumStr(125), JNull, JNull, JNull>>),
      Record(video_id, TitleA, NoDurs),
      [Record(video_id, TitleA, NoDurs) EXCEPT !.error = TRUE],
      EmptyDict }

WatchResponses(video_id) ==
    { [kind |-> k, video |-> EmptyDict] :
         k \in {"transport", "errorbody", "novideo"} }
    \cup { [kind |-> "video", video |-> v] : v \in DetailVideos(video_id) }

(***************************************************************************)
(* The state of one run of the scraper.                                    *)
(*   pc        where the run stands: "start", waiting for the answer of a  *)
(*             Search call ("await_search"), of the watch-page call of the *)
(*             direct-ID path ("await_direct") or of a candidate           *)
(*             ("await_detail"), "done"; "off" when no run is modelled     *)
(*   stdout    the JSON objects written to standard output, in order       *)
(*   exitCode  the exit status, -1 while the process runs                  *)
(*   searchLog the query of every Search call made, in order               *)
(*   searchReplies  what every answered Search call returned: the kind of  *)
(*             answer and the candidate list found in it                   *)
(*   fetchLog  the id of every watch-page call made, in order              *)
(*   fetchReplies  what every answered watch-page call returned            *)
(*   consulted the components that were called: "query_builder",           *)
(*             "token_extractor", "scorer"                                 *)
(* The q* variables hold one application of the pure text functions.       *)
(***************************************************************************)
VARIABLES pc, argv, stdin, params, stdout, exitCode,
          query, tokens, local_durations, consulted,
          searchLog, searchReplies, fetchLog, fetchReplies,
          candidates, filtered_candidates, candidates_to_process, idx,
          results_with_details, scored_candidates,
          qpc, qin, qwords, qout, qagain, qtokens

runVars == <<pc, argv, stdin, params, stdout, exitCode,
             query, tokens, local_durations, consulted,
             searchLog, searchReplies, fetchLog, fetchReplies,
             candidates, filtered_candidates, candidates_to_process, idx,
             results_with_details, scored_candidates>>

textVars == <<qpc, qin, qwords, qout, qagain, qtokens>>

vars == <<runVars, textVars>>

inputVars == <<argv, stdin, params>>

derivedVars == <<query, tokens, local_durations>>

loopVars == <<candidates, filtered_candidates, candidates_to_process, idx,
              results_with_details, scored_candidates>>

NoText == <<>>

ErrorObject(message, arg) == [error |-> [msg |-> message, arg |-> arg]]

\* jprint(obj), then the process exits with status code.
Exit(obj, code) ==
    /\ pc' = "done"
    /\ stdout' = Append(stdout, obj)
    /\ exitCode' = code

\* A variant that exits without printing.
fail_NoPrint(message, arg) ==
    /\ pc' = "done"
    /\ stdout' = stdout
    /\ exitCode' = 1

\* fail(message): jprint({"error": message}); raise SystemExit(1)
fail(message, arg) == Exit(ErrorObject(message, arg), 1)

\* The except Exception clause of __main__.
Unhandled(what) == Exit(ErrorObject("Unhandled exception in scraper", what), 1)

\* dig(params, key) or ""
DigText(p, key) == IF p.isDict THEN p[key] ELSE <<>>

RunIdle ==
    /\ query = NoText /\ tokens = <<>> /\ local_durations = <<>>
    /\ consulted = {}
    /\ searchLog = <<>> /\ searchReplies = <<>> /\ fetchLog = <<>>
    /\ fetchReplies = <<>>
    /\ candidates = <<>> /\ filtered_candidates = <<>>
    /\ candidates_to_process = <<>> /\ idx = 0
    /\ results_with_details = <<>> /\ scored_candidates = <<>>
    /\ stdout = <<>> /\ exitCode = -1

TextIdle ==
    /\ qpc = "off" /\ qin = <<>> /\ qwords = <<>> /\ qout = <<>>
    /\ qagain = <<>> /\ qtokens = <<>>

Init ==
    /\ pc = "start"
    /\ argv \in Methods
    /\ stdin \in StdinKinds
    /\ params \in (IF stdin = "json" THEN Fragments ELSE {NotAnObject})
    /\ RunIdle
    /\ TextIdle

(***************************************************************************)
(* __main__, lines 605-624: the input errors.                              *)
(***************************************************************************)
InputError ==
    /\ pc = "start"
    /\ \/ argv = "none" /\ fail("Missing scrape method argument", <<>>)
       \/ argv # "none" /\ stdin = "empty"
          /\ fail("No JSON input provided on stdin", <<>>)
       \/ argv # "none" /\ stdin = "invalid"
          /\ fail("Invalid JSON input", <<>>)
       \/ argv \notin {"none", "sceneByURL", "sceneByFragment"}
          /\ stdin = "json"
          /\ fail("Unknown scrape method", <<>>)
    /\ UNCHANGED <<inputVars, derivedVars, consulted, searchLog, searchReplies,
                   fetchLog, fetchReplies, loopVars, textVars>>

\* _search_videos_with_retries issues its first Search call.
StartSearch(q, tk) ==
    /\ pc' = "await_search"
    /\ searchLog' = Append(searchLog, q)
    /\ query' = q
    /\ tokens' = tk
    /\ UNCHANGED <<stdout, exitCode, fetchLog>>

\* _get_video_by_id issues its watch-page call.
StartDirect(scene_id) ==
    /\ pc' = "await_direct"
    /\ fetchLog' = Append(fetchLog, scene_id)
    /\ UNCHANGED <<stdout, exitCode, searchLog, query, tokens, consulted>>

\* A variant that lets every query through.
UsableQuery_Always(q) == TRUE

\* Line 583: if not query.
UsableQuery(q) == q # <<>>

sceneByFragment ==
    /\ pc = "start" /\ argv = "sceneByFragment" /\ stdin = "json"
    /\ local_durations' = _extract_local_durations(params)
    /\ LET filename == DigText(params, "filename")
           title == DigText(params, "title")
           scene_id == IF _extract_scene_id(filename) # <<>>
                       THEN _extract_scene_id(filename)
                       ELSE _extract_scene_id(title)
           storage_key == IF _extract_storage_key(filename) # <<>>
                          THEN _extract_storage_key(filename)
                          ELSE _extract_storage_key(title)
           query_source == IF storage_key # <<>> THEN storage_key
                           ELSE IF title # <<>> THEN title ELSE filename
           q == _build_search_query(query_source)
       IN  IF scene_id # <<>>
           THEN StartDirect(scene_id)
           ELSE /\ consulted' = {"query_builder", "token_extractor"}
                /\ IF ~UsableQuery(q)
                   THEN /\ fail("Did not find a usable search query from fragment input", <<>>)
                        /\ query' = q
                        /\ tokens' = _extract_filename_tokens(filename)
                        /\ UNCHANGED <<searchLog, fetchLog>>
                   ELSE StartSearch(q, _extract_filename_tokens(filename))
    /\ UNCHANGED <<inputVars, searchReplies, fetchReplies, loopVars, textVars>>

\* url.rstrip("/")
RStripSlash(url) ==
    LET keep == {i \in 1..Len(url) : url[i] # "/"}
    IN  IF keep = {} THEN <<>> ELSE SubSeq(url, 1, MaxOf(keep))

\* url.rstrip("/").split("/")[-1].split("?")[0]
UrlSlugOf(url) == BeforeQuestionMark(basename(RStripSlash(url)))

sceneByURL ==
    /\ pc = "start" /\ argv = "sceneByURL" /\ stdin = "json"
    /\ local_durations' = _extract_local_durations(params)
    /\ LET url == DigText(params, "url")
           scene_id == _extract_scene_id(url)
           slug == UrlSlugOf(url)
       IN  IF scene_id # <<>>
           THEN StartDirect(scene_id)
           ELSE IF slug # <<>>
                THEN /\ consulted' = {"query_builder"}
                     /\ StartSearch(_build_search_query(slug), <<>>)
                ELSE /\ fail("Did not find scene ID or slug from URL", url)
                     /\ UNCHANGED <<query, tokens, consulted, searchLog,
                                    fetchLog>>
    /\ UNCHANGED <<inputVars, searchReplies, fetchReplies, loopVars, textVars>>

(***************************************************************************)
(* _handle_search_results, lines 499-552.                                  *)
(***************************************************************************)
\* Lines 499-504: the token pre-filter.
Prefilter(cands, tk) ==
    LET Related(c) == _video_contains_token(c, tk)
        filtered == SelectSeq(cands, Related)
    IN  IF Len(cands) > PrefilterThreshold /\ tk # <<>> /\ filtered # <<>>
        THEN filtered
        ELSE cands

\* Lines 522-552, once the fetch loop is over: abort, or score, rank, decide
\* and let __main__ print the result.
Conclude(res) ==
    IF res = <<>>
    THEN /\ fail("No valid video details found from search results", <<>>)
         /\ UNCHANGED <<scored_candidates, consulted>>
    ELSE LET ranked == SortByScoreDesc(
                          ScoreAll(res, JoinWith(tokens, <<" ">>),
                                   local_durations))
         IN  /\ scored_candidates' = ranked
             /\ consulted' = consulted \cup {"scorer"}
             /\ Exit(Decide(ranked, local_durations), 0)

\* The fetch loop from position i on, with the records fetched so far: a
\* candidate object without an id is passed over without a call; a
\* candidate that is not an object raises inside the try, and again inside
\* the except clause that logs it (_get_video_id(c)), which ends the run in
\* __main__'s handler; otherwise the next watch-page call is issued.
ContinueLoop(cp, i, res) ==
    LET pending == {k \in i..Len(cp) :
                       ~cp[k].isDict \/ _get_video_id(cp[k]) # <<>>}
    IN  /\ results_with_details' = res
        /\ IF pending = {}
           THEN /\ idx' = Len(cp) + 1
                /\ fetchLog' = fetchLog
                /\ Conclude(res)
           ELSE /\ idx' = MinOf(pending)
                /\ UNCHANGED <<scored_candidates, consulted>>
                /\ IF cp[MinOf(pending)].isDict
                   THEN /\ pc' = "await_detail"
                        /\ fetchLog' =
                              Append(fetchLog, _get_video_id(cp[MinOf(pending)]))
                        /\ UNCHANGED <<stdout, exitCode>>
                   ELSE /\ fetchLog' = fetchLog
                        /\ Unhandled("AttributeError")

\* _search_videos_with_retries, line 564: a non-empty candidate list.
HandleSearchResults(cands) ==
    /\ candidates' = cands
    /\ filtered_candidates' = Prefilter(cands, tokens)
    /\ candidates_to_process' = FirstN(Prefilter(cands, tokens), DetailCap)
    /\ ContinueLoop(FirstN(Prefilter(cands, tokens), DetailCap), 1, <<>>)
    /\ UNCHANGED searchLog

\* The answer of a Search call.
SearchResponse ==
    /\ pc = "await_search"
    /\ \E resp \in SearchResponses :
       /\ searchReplies' =
             Append(searchReplies,
                    [kind |-> resp.kind,
                     cands |-> IF resp.kind = "body"
                               THEN _extract_video_candidates(resp.body)
                               ELSE <<>>])
       /\ \/ /\ resp.kind = "transport"
             /\ fail("search_videos: request failed", <<>>)
             /\ UNCHANGED <<searchLog, fetchLog, consulted, loopVars>>
          \/ /\ resp.kind = "errorbody"
             /\ Exit([error |-> [msg |-> "search_videos: non-JSON response",
                                 arg |-> <<>>],
                      status |-> 200], 0)
             /\ UNCHANGED <<searchLog, fetchLog, consulted, loopVars>>
          \/ /\ resp.kind = "nondict"
             /\ Unhandled("AttributeError")
             /\ UNCHANGED <<searchLog, fetchLog, consulted, loopVars>>
          \/ /\ resp.kind = "body"
             /\ _extract_video_candidates(resp.body) # <<>>
             /\ HandleSearchResults(_extract_video_candidates(resp.body))
          \/ /\ resp.kind = "body"
             /\ _extract_video_candidates(resp.body) = <<>>
             /\ IF Len(searchLog) < MaxAttempts
                THEN /\ searchLog' = Append(searchLog, query)
                     /\ UNCHANGED <<pc, stdout, exitCode>>
                ELSE /\ fail("No search results for query after retries",
                             query)
                     /\ UNCHANGED searchLog
             /\ UNCHANGED <<fetchLog, consulted, loopVars>>
    /\ UNCHANGED <<inputVars, derivedVars, fetchReplies, textVars>>

\* A variant in which no answer counts as a soft failure.
SoftFailure_Never(resp) == FALSE

\* Lines 403-404 and 459-461: the answer carries an "error" key, either the
\* object _json_from_response makes of an undecodable body or a decoded
\* object that has the key itself.
SoftFailure(resp) ==
    \/ resp.kind = "errorbody"
    \/ resp.kind = "video" /\ resp.video.error

\* The answer of the watch-page call of a candidate, lines 514-520.
DetailResponse ==
    /\ pc = "await_detail"
    /\ \E resp \in WatchResponses(fetchLog[Len(fetchLog)]) :
       /\ fetchReplies' = Append(fetchReplies, resp)
       /\ \/ /\ resp.kind = "transport"
             /\ fail("get_watch_page: request failed", <<>>)
             /\ UNCHANGED <<fetchLog, consulted, idx, results_with_details,
                            scored_candidates>>
          \/ /\ resp.kind # "transport"
             /\ SoftFailure(resp)
             /\ ContinueLoop(candidates_to_process, idx + 1,
                             results_with_details)
          \/ /\ resp.kind \in {"novideo", "errorbody"}
             /\ ~SoftFailure(resp)
             /\ fail("Video data not found in watch-page response", <<>>)
             /\ UNCHANGED <<fetchLog, consulted, idx, results_with_details,
                            scored_candidates>>
          \/ /\ resp.kind = "video"
             /\ ~SoftFailure(resp)
             /\ IF resp.video = EmptyDict
                THEN ContinueLoop(candidates_to_process, idx + 1,
                                  results_with_details)
                ELSE ContinueLoop(candidates_to_process, idx + 1,
                                  Append(results_with_details, resp.video))
    /\ UNCHANGED <<inputVars, derivedVars, searchLog, searchReplies,
                   candidates, filtered_candidates, candidates_to_process,
                   textVars>>

\* The object _get_video_by_id hands back when the record has an "error" key.
RawVideo(video) ==
    [error |-> [msg |-> "remote", arg |-> <<>>],
     _id |-> video._id, title |-> video.title]

\* The answer of the watch-page call of the direct-ID path, lines 401-416.
DirectResponse ==
    /\ pc = "await_direct"
    /\ \E resp \in WatchResponses(fetchLog[Len(fetchLog)]) :
       /\ fetchReplies' = Append(fetchReplies, resp)
       /\ \/ /\ resp.kind = "transport"
             /\ fail("get_watch_page: request failed", <<>>)
          \/ /\ resp.kind = "novideo"
             /\ fail("Video data not found in watch-page response", <<>>)
          \/ /\ resp.kind = "errorbody"
             /\ Exit([error |-> [msg |-> "get_watch_page: non-JSON response",
                                 arg |-> <<>>],
                      status |-> 200], 0)
          \/ /\ resp.kind = "video" /\ resp.video.error
             /\ Exit(RawVideo(resp.video), 0)
          \/ /\ resp.kind = "video" /\ ~resp.video.error
             /\ Exit(_build_scene(resp.video), 0)
    /\ UNCHANGED <<inputVars, derivedVars, consulted, searchLog,
                   searchReplies, fetchLog, loopVars, textVars>>

Next ==
    \/ InputError
    \/ sceneByFragment
    \/ sceneByURL
    \/ SearchResponse
    \/ DetailResponse
    \/ DirectResponse

Spec == Init /\ [][Next]_vars

(***************************************************************************)
(* The text functions on their own: one input string, the Query Builder    *)
(* applied to it, the Query Builder applied to its own output, the Token   *)
(* Extractor applied to the input.                                         *)
(***************************************************************************)
MaxParts == 4

\* The pieces free input strings are made of.
Pieces == { <<"a">>, <<"1">>, <<".">>, <<"_">>, <<"-">>, <<" ">>, <<"/">>,
            <<"1", "2", "3", "4", "5", "6", "7", "8">> }

RECURSIVE Flatten(_)
Flatten(parts) ==
    IF parts = <<>> THEN <<>> ELSE parts[1] \o Flatten(Tail(parts))

FreeInputs ==
    UNION { {Flatten(f) : f \in [1..n -> Pieces]} : n \in 0..MaxParts }

TypeAName == <<"T", "a", "T", "_", "-", "_", "(", "T", "i", "t", "s", ",", "A", "s", "s", ",", "&", "T", "a", "t", "s", ")", ".", "m", "p", "4">>

TypeAQuery == <<"(", "T", "i", "t", "s", ",", "A", "s", "s", ",", "&", "T", "a", "t", "s", ")">>

TypeBName == <<"t", "o", "m", "t", "o", "m", "1", "0", "_", "-", "_", "T", "h", "i", "c", "c", "_", "5", "_", "1", "7", "6", "6", "6", "7", "1", "2", "9", "1", "9", "3", "2", "_", "f", "o", "l", "h", "s", "c", "u", "z", ".", "m", "p", "4">>

TypeBQuery == <<"T", "h", "i", "c", "c", " ", "5">>

\* The parts of a file name <prefix>_-_<words>[_<digits>_<suffix>].<ext>.
Prefixes == { <<>>, <<"T", "a", "T">>, <<"t", "o", "m", "t", "o", "m", "1", "0">>, <<"x", "_", "-">>, <<"p", ".", "q">> }

WordLists ==
    { <<>>,
      << <<"(", "T", "i", "t", "s", ",", "A", "s", "s", ",", "&", "T", "a", "t", "s", ")">> >>,
      << <<"T", "h", "i", "c", "c">>, <<"5">> >>,
      << <<"a">>, <<"1", "2", "3", "4", "5", "6", "7">> >>,
      << <<"1", "2", "3", "4", "5", "6", "7">>, <<"b">>, <<"c">> >> }

Joiners == { <<"_">>, <<"-">> }

Stamps == { <<"1", "2", "3", "4", "5", "6", "7", "8">>, <<"1", "7", "6", "6", "6", "7", "1", "2", "9", "1", "9", "3", "2">> }

Suffixes == { <<"f", "o", "l", "h", "s", "c", "u", "z">>, <<"s", ".", "t">>, <<"9", "9", "9", "9", "9", "9", "9", "9">> }

Extensions == { <<"m", "p", "4">> }

ShapedName(prefix, words, joiner, tail, ext) ==
    prefix \o <<"_", "-", "_">> \o JoinWith(words, joiner) \o tail
       \o <<".">> \o ext

StampTails ==
    { <<>> } \cup { <<"_">> \o st \o <<"_">> \o su :
                       st \in Stamps, su \in Suffixes }

InitText ==
    /\ pc = "off"
    /\ argv = "none" /\ stdin = "empty" /\ params = NotAnObject
    /\ RunIdle
    /\ qpc = "input"
    /\ qout = <<>> /\ qagain = <<>> /\ qtokens = <<>>
    /\ \/ /\ qin \in FreeInputs
          /\ qwords = [shaped |-> FALSE, words |-> <<>>]
       \/ \E prefix \in Prefixes, words \in WordLists, joiner \in Joiners,
             tail \in StampTails, ext \in Extensions :
             /\ qin = ShapedName(prefix, words, joiner, tail, ext)
             /\ qwords = [shaped |-> TRUE, words |-> words]

BuildQuery ==
    /\ qpc = "input"
    /\ qout' = _build_search_query(qin)
    /\ qpc' = "built"
    /\ UNCHANGED <<runVars, qin, qwords, qagain, qtokens>>

RebuildQuery ==
    /\ qpc = "built"
    /\ qagain' = _build_search_query(qout)
    /\ qpc' = "rebuilt"
    /\ UNCHANGED <<runVars, qin, qwords, qout, qtokens>>

ExtractTokens ==
    /\ qpc = "rebuilt"
    /\ qtokens' = _extract_filename_tokens(qin)
    /\ qpc' = "done"
    /\ UNCHANGED <<runVars, qin, qwords, qout, qagain>>

NextText == BuildQuery \/ RebuildQuery \/ ExtractTokens

SpecText == InitText /\ [][NextText]_vars

(***************************************************************************)
(* Properties of the text functions, checked under SpecText.               *)
(***************************************************************************)
TokCombined == <<"1", "7", "6", "6", "6", "7", "1", "2", "9", "1", "9", "3", "2", "_", "f", "o", "l", "h", "s", "c", "u", "z">>

TokStamp == <<"1", "7", "6", "6", "6", "7", "1", "2", "9", "1", "9", "3", "2">>

TokSuffix == <<"f", "o", "l", "h", "s", "c", "u", "z">>

\* C8: the Token Extractor applied to
\* "tomtom10_-_Thicc_5_1766671291932_folhscuz.mp4" yields exactly
\* ["1766671291932_folhscuz", "1766671291932", "folhscuz"].
C8_ExampleTokens ==
    (qpc = "done" /\ qin = TypeBName)
       => qtokens = <<TokCombined, TokStamp, TokSuffix>>

HasLongDigitRun(s) ==
    \E i \in 1..Len(s) :
       /\ i + 7 <= Len(s)
       /\ \A k \in i..(i + 7) : s[k] \in Digits

\* s ends in a "." followed by one or more characters other than ".".
HasExtensionTail(s) ==
    /\ \E i \in 1..Len(s) : s[i] = "."
    /\ s[Len(s)] # "."

\* C10 as stated: for every input whose cleaned query holds no run of 8 or
\* more digits, the Query Builder applied to the query returns the query.
C10_Idempotent ==
    (qpc \in {"rebuilt", "done"} /\ ~HasLongDigitRun(qout)) => qagain = qout

\* C10, where it does hold: for every input whose cleaned query holds no run
\* of 8 or more digits and does not end in a "." followed by one or more
\* characters other than ".", the Query Builder applied to the query
\* returns the query.
C10_IdempotentWithoutExtension ==
    (qpc \in {"rebuilt", "done"} /\ ~HasLongDigitRun(qout)
        /\ ~HasExtensionTail(qout))
       => qagain = qout

\* A query that differs from its input, holds a "." and no digit run, was
\* rebuilt.
C10_Witness ==
    /\ qpc = "rebuilt"
    /\ qout # <<>>
    /\ qout # qin
    /\ \E i \in 1..Len(qout) : qout[i] = "."
    /\ ~HasLongDigitRun(qout)
    /\ ~HasExtensionTail(qout)
    /\ qagain = qout

(***************************************************************************)
(* Properties of a run, checked under Spec.                                *)
(***************************************************************************)
HasErrorKey(obj) == "error" \in DOMAIN obj

IsSelectionOptions(obj) == DOMAIN obj = {"results"}

IsResolvedScene(obj) ==
    DOMAIN obj = {"title", "url", "image", "date", "performers", "tags"}

\* C1: every run that ends in a failure writes an {"error": ...} object
\* and exits with status 1, and no run whose stdout object carries an
\* "error" key exits with status 0.
C1_ErrorObjectIffExitOne ==
    pc = "done" =>
       \A k \in 1..Len(stdout) : HasErrorKey(stdout[k]) <=> exitCode = 1

\* C2: on every execution path exactly one JSON object is written to
\* stdout before the process exits: nothing is written while the run is
\* under way, and a finished run has written one object, never zero and
\* never two.
C2_ExactlyOneObject ==
    /\ pc = "done" <=> exitCode # -1
    /\ pc = "done" => Len(stdout) = 1
    /\ pc \in {"start", "await_search", "await_direct", "await_detail"}
          => Len(stdout) = 0

\* A fail() deep in the detail-fetch loop, after two records were fetched.
C2_Witness ==
    /\ pc = "done"
    /\ exitCode = 1
    /\ Len(results_with_details) = 2
    /\ idx <= Len(candidates_to_process)
    /\ Len(stdout) = 1
    /\ HasErrorKey(stdout[1])

EmptyReply(r) == r.kind = "body" /\ r.cands = <<>>

\* C3: Search is called at most 3 times, always with the same query; the
\* first attempt that returns a non-empty candidate list is the last
\* Search call and its candidates are the ones handed to the Filter &
\* Scorer; three empty answers end the run with the "No search results"
\* error naming the query.
C3_SearchWithRetry ==
    /\ Len(searchLog) <= 3
    /\ \A k \in 1..Len(searchLog) : searchLog[k] = query
    /\ \A k \in 1..Len(searchReplies) :
          ~EmptyReply(searchReplies[k]) => k = Len(searchLog)
    /\ \A k \in 1..Len(searchReplies) :
          (searchReplies[k].kind = "body" /\ searchReplies[k].cands # <<>>)
             => /\ candidates = searchReplies[k].cands
                /\ pc \in {"await_detail", "done"}
    /\ (Len(searchReplies) = 3
          /\ \A k \in 1..3 : EmptyReply(searchReplies[k]))
         => /\ pc = "done"
            /\ exitCode = 1
            /\ stdout = << ErrorObject(
                              "No search results for query after retries",
                              query) >>

\* Empty, empty, non-empty: the run went on with attempt 3's candidates.
C3_Witness ==
    /\ Len(searchReplies) = 3
    /\ EmptyReply(searchReplies[1])
    /\ EmptyReply(searchReplies[2])
    /\ searchReplies[3].cands # <<>>
    /\ candidates = searchReplies[3].cands
    /\ pc = "done"
    /\ exitCode = 0

\* The detail-fetch loop ran to its end.
LoopOver ==
    /\ pc = "done"
    /\ candidates_to_process # <<>>
    /\ idx = Len(candidates_to_process) + 1

Passes(video) ==
    _duration_matches(_extract_candidate_duration(video), local_durations)

\* scored_candidates ranks the fetched records: the same records, each
\* with its score, in descending order of score.
IsRanking ==
    /\ Len(scored_candidates) = Len(results_with_details)
    /\ \A v \in {results_with_details[k] : k \in 1..Len(results_with_details)} :
          Cardinality({k \in 1..Len(scored_candidates) :
                          scored_candidates[k].video = v})
             = Cardinality({k \in 1..Len(results_with_details) :
                               results_with_details[k] = v})
    /\ \A k \in 1..Len(scored_candidates) :
          scored_candidates[k].score =
             _calculate_score(scored_candidates[k].video,
                              JoinWith(tokens, <<" ">>), local_durations)
    /\ \A k \in 1..(Len(scored_candidates) - 1) :
          ~ScoreLess(scored_candidates[k].score,
                     scored_candidates[k + 1].score)

PassingRanks == {k \in 1..Len(scored_candidates) :
                    Passes(scored_candidates[k].video)}

\* C4: when local durations are known, the top-scored fetched record fails
\* the duration check and a lower-ranked one passes it, the result is the
\* scene built from the highest-ranked record that passes.
C4_LowerRankedDurationMatchWins ==
    (LoopOver /\ results_with_details # <<>> /\ local_durations # <<>>
        /\ PassingRanks # {} /\ 1 \notin PassingRanks)
       => /\ IsRanking
          /\ exitCode = 0
          /\ stdout =
                << _build_scene(scored_candidates[MinOf(PassingRanks)].video) >>

\* The top-scored record fails the duration check, a lower-ranked one
\* passes, and the scene printed is not the one of the top-scored record.
C4_Witness ==
    /\ LoopOver /\ local_durations # <<>>
    /\ PassingRanks # {} /\ 1 \notin PassingRanks
    /\ MinOf(PassingRanks) > 2
    /\ ScoreLess(scored_candidates[MinOf(PassingRanks)].score,
                 scored_candidates[1].score)
    /\ stdout # << _build_scene(scored_candidates[1].video) >>

ShortlistOf(ranked) ==
    [k \in 1..(IF Len(ranked) < 3 THEN Len(ranked) ELSE 3) |->
        SelectionOption(ranked[k].video)]

\* C5 as stated: when local durations are known and no fetched record
\* passes the duration check, the Filter & Scorer returns a
\* SelectionOptions object holding the top min(3, n) ranked records, in
\* rank order, and never a ResolvedScene.
C5_NoDurationMatchGivesShortlist ==
    (LoopOver /\ local_durations # <<>>
        /\ \A k \in 1..Len(results_with_details) :
              ~Passes(results_with_details[k]))
       => /\ IsRanking
          /\ exitCode = 0
          /\ Len(stdout) = 1
          /\ IsSelectionOptions(stdout[1])
          /\ stdout[1].results = ShortlistOf(scored_candidates)

\* C5 as amended: the same, provided at least one detail record was
\* fetched successfully (n >= 1).
C5_ShortlistWhenSomeRecordFetched ==
    (LoopOver /\ local_durations # <<>>
        /\ results_with_details # <<>>
        /\ \A k \in 1..Len(results_with_details) :
              ~Passes(results_with_details[k]))
       => /\ IsRanking
          /\ exitCode = 0
          /\ Len(stdout) = 1
          /\ IsSelectionOptions(stdout[1])
          /\ ~IsResolvedScene(stdout[1])
          /\ stdout[1].results = ShortlistOf(scored_candidates)

\* Five records fetched, none within tolerance, a record without any
\* duration among them: a shortlist of three.
C5_Witness ==
    /\ LoopOver /\ local_durations # <<>>
    /\ Len(results_with_details) = 5
    /\ \A k \in 1..5 : ~Passes(results_with_details[k])
    /\ \E k \in 1..5 : ~_extract_candidate_duration(results_with_details[k]).ok
    /\ IsSelectionOptions(stdout[1])
    /\ Len(stdout[1].results) = 3
    /\ ScoreLess(scored_candidates[3].score, scored_candidates[1].score)

\* text holds a run of 24 characters of [a-f0-9].
HasSceneId(text) ==
    \E i \in 1..Len(text) :
       /\ i + 23 <= Len(text)
       /\ \A k \in i..(i + 23) : text[k] \in HexLower

\* C6: a sceneByFragment run whose filename and title hold no 24-character
\* hex ID and whose derived query is empty ends with the no-usable-query
\* error, without any Search call or detail fetch.
C6_NoQueryNoSearch ==
    (stdin = "json" /\ argv = "sceneByFragment" /\ pc # "start"
        /\ ~HasSceneId(params.filename) /\ ~HasSceneId(params.title)
        /\ query = <<>>)
       => /\ pc = "done"
          /\ exitCode = 1
          /\ stdout = << ErrorObject(
                "Did not find a usable search query from fragment input",
                <<>>) >>
          /\ searchLog = <<>>
          /\ fetchLog = <<>>

\* A fragment with a filename and a title, neither of which gives a query.
C6_Witness ==
    /\ pc = "done" /\ argv = "sceneByFragment" /\ stdin = "json"
    /\ params.filename = FnDigits /\ params.title = TitlePlain
    /\ query = <<>>
    /\ searchLog = <<>>
    /\ exitCode = 1

\* The text the direct-ID path reads its ID from.
IdSource ==
    IF argv = "sceneByURL" THEN params.url
    ELSE IF HasSceneId(params.filename) THEN params.filename
         ELSE params.title

DirectCase ==
    /\ stdin = "json"
    /\ \/ argv = "sceneByFragment"
          /\ (HasSceneId(params.filename) \/ HasSceneId(params.title))
       \/ argv = "sceneByURL" /\ HasSceneId(params.url)

\* C7: when a 24-character hex run occurs in the filename or title
\* (sceneByFragment) or in the URL (sceneByURL), the run makes exactly one
\* detail fetch, for that ID, and no Search call; the query builder, the
\* token extractor and the scorer are not consulted; the outcome is the
\* scene built from the record or an error.
C7_DirectIdSkipsSearch ==
    (DirectCase /\ pc # "start")
       => /\ Len(fetchLog) = 1
          /\ Len(fetchLog[1]) = 24
          /\ \A k \in 1..Len(fetchLog[1]) : fetchLog[1][k] \in HexLower
          /\ Contains(IdSource, fetchLog[1])
          /\ searchLog = <<>>
          /\ consulted = {}
          /\ pc \in {"await_direct", "done"}
          /\ pc = "done"
                => /\ Len(stdout) = 1
                   /\ \/ HasErrorKey(stdout[1])
                      \/ \E v \in DetailVideos(fetchLog[1]) :
                            stdout[1] = _build_scene(v)

\* The ID came from the title, and the scene of its record was printed.
C7_Witness ==
    /\ pc = "done" /\ argv = "sceneByFragment" /\ stdin = "json"
    /\ ~HasSceneId(params.filename) /\ HasSceneId(params.title)
    /\ params.filename # <<>>
    /\ fetchLog = <<HexId2>>
    /\ exitCode = 0
    /\ IsResolvedScene(stdout[1])
    /\ stdout[1].title # <<>>

(***************************************************************************)
(* The detail-fetch loop.                                                  *)
(***************************************************************************)
\* The Filter & Scorer was entered.
InLoop == candidates_to_process # <<>>

\* The candidate is an object that carries an id.
HasId(c) == c.isDict /\ (c._id # <<>> \/ c.id # <<>> \/ c.videoId # <<>>)

\* The answer is an error response: the {"error": ...} value the client
\* layer makes of an undecodable body, or a decoded object with that key.
IsErrorResponse(r) ==
    \/ r.kind = "errorbody"
    \/ r.kind = "video" /\ r.video.error

\* The answer is a usable detail record.
IsFetched(r) == r.kind = "video" /\ ~r.video.error /\ r.video # EmptyDict

\* The candidates the loop has reached so far.
Reached ==
    SubSeq(candidates_to_process, 1,
           IF idx < Len(candidates_to_process)
           THEN idx ELSE Len(candidates_to_process))

\* The run ended at a candidate that is not an object.
EndedAtNonObject ==
    /\ pc = "done"
    /\ idx \in 1..Len(candidates_to_process)
    /\ ~candidates_to_process[idx].isDict

\* The printed object was made of the records fetched successfully.
MadeOfFetchedRecords(obj) ==
    IF results_with_details = <<>>
    THEN obj = ErrorObject("No valid video details found from search results",
                           <<>>)
    ELSE \/ \E k \in 1..Len(results_with_details) :
               obj = _build_scene(results_with_details[k])
         \/ /\ IsSelectionOptions(obj)
            /\ obj.results # <<>>
            /\ \A j \in 1..Len(obj.results) :
                  \E k \in 1..Len(results_with_details) :
                     obj.results[j] = SelectionOption(results_with_details[k])

\* C11: in the detail-fetch loop a candidate object without an id, or a
\* candidate whose watch-page call answers with an error response, drops
\* only that candidate: no call is made for a candidate without an id, the
\* loop goes on to the remaining candidates, the records kept are exactly
\* those fetched successfully, and the resolution is made of them.
C11_FailedFetchDropsOnlyThatCandidate ==
    InLoop =>
       /\ Len(fetchLog) = Len(SelectSeq(Reached, HasId))
       /\ \A k \in 1..Len(fetchLog) :
             fetchLog[k] = _get_video_id(SelectSeq(Reached, HasId)[k])
       /\ \A k \in 1..Len(fetchReplies) :
             IsErrorResponse(fetchReplies[k])
                => \/ Len(fetchLog) > k
                   \/ LoopOver
                   \/ EndedAtNonObject
       /\ Len(results_with_details) = Len(SelectSeq(fetchReplies, IsFetched))
       /\ \A k \in 1..Len(results_with_details) :
             results_with_details[k]
                = SelectSeq(fetchReplies, IsFetched)[k].video
       /\ LoopOver => /\ Len(stdout) = 1
                      /\ MadeOfFetchedRecords(stdout[1])

\* Three candidates, the second without an id: two calls were made, the
\* first answered with an undecodable body, and the scene of the third
\* candidate's record was printed.
C11_Witness ==
    /\ LoopOver
    /\ Len(candidates_to_process) = 3
    /\ ~HasId(candidates_to_process[2])
    /\ Len(fetchLog) = 2
    /\ fetchReplies[1].kind = "errorbody"
    /\ IsFetched(fetchReplies[2])
    /\ exitCode = 0
    /\ stdout = << _build_scene(fetchReplies[2].video) >>

\* The positions of the surviving list whose candidate carries the id.
PositionsOf(video_id) ==
    {p \in 1..Len(filtered_candidates) :
        /\ HasId(filtered_candidates[p])
        /\ _get_video_id(filtered_candidates[p]) = video_id}

\* C12: a run makes at most 5 watch-page calls, one after another (a call
\* is issued only once every earlier one was answered), and in the Filter &
\* Scorer only for candidates among the first 5 of the list that survived
\* the pre-filter, in list order; no candidate beyond position 5 is
\* fetched.
C12_AtMostFiveSequentialFetches ==
    /\ Len(fetchLog) <= 5
    /\ Len(fetchReplies) =
          (IF pc \in {"await_detail", "await_direct"}
           THEN Len(fetchLog) - 1 ELSE Len(fetchLog))
    /\ InLoop =>
          /\ \A k \in 1..Len(fetchLog) :
                /\ PositionsOf(fetchLog[k]) # {}
                /\ \A p \in PositionsOf(fetchLog[k]) : p <= 5
          /\ \A j, k \in 1..Len(fetchLog) :
                j < k => \A p \in PositionsOf(fetchLog[j]),
                            q \in PositionsOf(fetchLog[k]) : p < q
          /\ \A p \in 6..Len(filtered_candidates) :
                \A k \in 1..Len(fetchLog) :
                   fetchLog[k] # _get_video_id(filtered_candidates[p])

\* Seven candidates survived the pre-filter; five calls were made, two of
\* them answered with an error response, and the loop ended there.
C12_Witness ==
    /\ LoopOver
    /\ Len(candidates) > Len(filtered_candidates)
    /\ Len(filtered_candidates) = 7
    /\ Len(fetchLog) = 5
    /\ Len(fetchReplies) = 5
    /\ IsErrorResponse(fetchReplies[1])
    /\ IsErrorResponse(fetchReplies[4])
    /\ Len(results_with_details) = 3

(***************************************************************************)
(* The token pre-filter.                                                   *)
(***************************************************************************)
\* tok occurs in str as a substring.
TokenIn(tok, str) ==
    \E i \in 1..(Len(str) - Len(tok) + 1) :
       SubSeq(str, i, i + Len(tok) - 1) = tok

\* The string fields of a candidate, at any depth.
StringFields(c) ==
    {c._id, c.id, c.videoId, c.title, c.thumbnailUrl}
       \cup {c.tags[k] : k \in 1..Len(c.tags)}

\* Some string field of the candidate contains some token.
HasTokenField(c) ==
    /\ c.isDict
    /\ \E str \in StringFields(c) :
          \E k \in 1..Len(tokens) : TokenIn(tokens[k], str)

\* C13: the token pre-filter is applied only when the candidate list has
\* more than 10 items and the token list is non-empty; it then keeps
\* exactly the candidates having a string field, at any depth, that
\* contains a token, in their original order; when no candidate passes the
\* original list is kept, so the list handed to the cap step is never
\* empty.
C13_PrefilterKeepsMatchingCandidates ==
    candidates # <<>> =>
       /\ filtered_candidates =
             (IF Len(candidates) > 10 /\ tokens # <<>>
                    /\ SelectSeq(candidates, HasTokenField) # <<>>
              THEN SelectSeq(candidates, HasTokenField)
              ELSE candidates)
       /\ filtered_candidates # <<>>
       /\ candidates_to_process # <<>>

\* Eleven candidates and one token: seven survive, the second of them
\* through a string of its tags list only.
C13_Witness ==
    /\ Len(candidates) = 11
    /\ Len(tokens) = 1
    /\ Len(filtered_candidates) = 7
    /\ filtered_candidates[1] = candidates[1]
    /\ filtered_candidates[2] = candidates[2]
    /\ filtered_candidates[7] = candidates[11]
    /\ ~TokenIn(tokens[1], filtered_candidates[2].title)
    /\ \E k \in 1..Len(filtered_candidates[2].tags) :
          TokenIn(tokens[1], filtered_candidates[2].tags[k])

\* Eleven candidates and one token that no candidate holds: all are kept.
C13_NoneMatches ==
    /\ Len(candidates) = 11
    /\ Len(tokens) = 1
    /\ SelectSeq(candidates, HasTokenField) = <<>>
    /\ filtered_candidates = candidates

(***************************************************************************)
(* The Duration Extractor.                                                 *)
(***************************************************************************)
\* The number a JSON value stands for, when it stands for one.
NumbersOf(value) ==
    IF value.t \in {"num", "numstr"} THEN {value.v} ELSE {}

\* The numbers at top-level duration, scene.duration and the duration of
\* each item of the top-level fingerprints list.
DurationsAtKnownLocations(p) ==
    IF ~p.isDict THEN {}
    ELSE NumbersOf(p.duration)
            \cup (IF p.scene.isDict THEN NumbersOf(p.scene.duration) ELSE {})
            \cup (IF p.fingerprints.isList
                  THEN UNION {NumbersOf(p.fingerprints.items[k].duration) :
                                 k \in {j \in 1..Len(p.fingerprints.items) :
                                           p.fingerprints.items[j].isDict}}
                  ELSE {})

\* C14: for every input fragment the set of values the Duration Extractor
\* returns equals the set of numeric-coercible values at top-level
\* duration, scene.duration and the duration of each item of the top-level
\* fingerprints list, whether or not the fragment has a scene mapping.
C14_DurationsFromAllLocations ==
    (pc # "start" /\ stdin = "json"
        /\ argv \in {"sceneByURL", "sceneByFragment"})
       => {local_durations[k] : k \in 1..Len(local_durations)}
             = DurationsAtKnownLocations(params)

(***************************************************************************)
(* The Query invariant, checked under SpecText.                            *)
(***************************************************************************)
\* s ends in a run of 8 or more digits.
EndsInLongDigitRun(s) ==
    /\ Len(s) >= 8
    /\ \A k \in (Len(s) - 7)..Len(s) : s[k] \in Digits

\* C15: for every input string the Query holds no path separator, no "."
\* followed by an extension, and no run of 8 or more digits at its end.
C15_QueryInvariant ==
    qpc \in {"built", "rebuilt", "done"}
       => /\ \A k \in 1..Len(qout) : qout[k] # "/"
          /\ ~HasExtensionTail(qout)
          /\ ~EndsInLongDigitRun(qout)

\* C15, the part that holds: the Query holds no path separator.
C15_NoPathSeparator ==
    qpc \in {"built", "rebuilt", "done"}
       => \A k \in 1..Len(qout) : qout[k] # "/"

=============================================================================
